---------------------------- MODULE Spec2Model ----------------------------
(***************************************************************************)
(* Model of the GraphChain backend (server.js): the snapshot save / read   *)
(* handlers and the security-check handler, running as interleaved async   *)
(* request handlers over one process-wide pg connection pool and a         *)
(* PostgreSQL database (READ COMMITTED).                                   *)
(*                                                                         *)
(* One step of a request is one turn of the event loop: the statement or   *)
(* HTTP call the handler awaits completes, the handler's continuation runs *)
(* up to its next await, and the next statement is handed to the pool.     *)
(***************************************************************************)
EXTENDS Integers, Sequences, FiniteSets, TLC

(***************************************************************************)
(* Bounds of the model.                                                    *)
(***************************************************************************)
\* number of HTTP requests served in one behaviour
NumReq == 3
\* longest snapshot_nodes array of a request body
MaxNodes == 2
\* most requests in flight at a time
MaxActive == 2
\* largest connection pool ("max" of pg.Pool, which the server leaves at its
\* default of 10).  What matters is whether the requests in flight can
\* outnumber the clients, so the pool is scaled down and a behaviour runs
\* with any size in 1..MaxClients.
MaxClients == 2

Req == 1..NumReq
Conn == 1..MaxClients

(***************************************************************************)
(* Values.  A textual address is the sequence of its characters; a missing *)
(* property (JS undefined) and a JSON null are the one-element sequences   *)
(* <<"undefined">> and <<"null">>, which no string is.  Coordinates are    *)
(* small naturals; the negative codes stand for the non-number values.     *)
(***************************************************************************)
HexLen == 40
HexChars == {"0", "1", "2", "3", "4", "5", "6", "7", "8", "9",
             "a", "b", "c", "d", "e", "f", "A", "B", "C", "D", "E", "F"}

Undefined == <<"undefined">>
Null == <<"null">>
UndefinedNum == 0 - 1
NullNum == 0 - 2
\* a coordinate given as text that is no number
TextNum == 0 - 3

Hex(ch) == <<"0", "x">> \o [i \in 1..HexLen |-> ch]
AddrA == Hex("a")
AddrB == Hex("B")
AddrC == Hex("c")
\* malformed addresses: non-hex body, one character short, one too long,
\* upper-case prefix, no prefix
AddrZ == <<"0", "x", "Z", "Z", "Z">>
AddrShort == <<"0", "x">> \o [i \in 1..(HexLen - 1) |-> "a"]
AddrLong == <<"0", "x">> \o [i \in 1..(HexLen + 1) |-> "a"]
AddrUpperX == <<"0", "X">> \o [i \in 1..HexLen |-> "a"]
AddrNoPrefix == [i \in 1..HexLen |-> "a"]
AddrNonHex == <<"0", "x">> \o [i \in 1..HexLen |-> IF i = HexLen THEN "g" ELSE "a"]

Names == {"s1", "s2"}

VARIABLES
    snapshots,        \* committed rows of table snapshots: [id, name]
    snapshot_nodes,   \* committed rows of snapshot_nodes: [node_id, x, y, address, snapshot_id]
    security_check,   \* committed rows of security_check: [address, score, reports]
    tx,               \* per connection: the open transaction and its pending writes
    nextSnapId,       \* sequence snapshots_id_seq
    idle,             \* pool: stack of idle clients (last released on top)
    numClients,       \* pool: clients created so far
    poolMax,          \* pool: the most clients it creates (option max)
    pending,          \* pool: queue of requests waiting for a client
    req               \* per request: the handler's local state and position

dbvars == <<snapshots, snapshot_nodes, security_check, tx, nextSnapId>>
vars == <<snapshots, snapshot_nodes, security_check, tx, nextSnapId,
          idle, numClients, poolMax, pending, req>>


(***************************************************************************)
(* The trace ledger and the address store: both are read-only to these     *)
(* handlers (filled by external ingestion).  The ledger holds duplicates   *)
(* of one natural key, a delegate_call whose from_addr and storage_addr    *)
(* differ, a self-call, and a row with an action outside the enumeration.  *)
(***************************************************************************)
Trace(id, f, t, s, a) ==
    [trace_id |-> id, from_addr |-> f, to_addr |-> t, storage_addr |-> s, action |-> a]

traces ==
    { Trace(1, AddrA, AddrB, AddrA, "call"),
      Trace(2, AddrA, AddrB, AddrA, "call"),
      Trace(3, AddrC, AddrB, AddrA, "delegate_call"),
      Trace(4, AddrA, AddrB, AddrC, "delegate_call"),
      Trace(5, AddrB, AddrA, AddrB, "create"),
      Trace(6, AddrA, AddrC, AddrA, "call"),
      Trace(7, AddrB, AddrB, AddrB, "create2"),
      Trace(8, AddrA, AddrB, AddrA, "staticcall"),
      Trace(9, AddrB, AddrA, AddrB, "delegate_call"),
      Trace(10, AddrB, AddrA, AddrB, "delegate_call") }

\* rows of table addresses: AddrA is known to the address store, AddrB is not
addresses == { [address |-> AddrA, contract_name |-> "TokenA"] }

(***************************************************************************)
(* PostgreSQL, as far as the handlers use it.  A connection is either in   *)
(* autocommit mode or inside a transaction opened by BEGIN; a transaction  *)
(* keeps its writes private until COMMIT, holds the row locks of what it   *)
(* deleted or inserted, and after a failed statement refuses everything    *)
(* but COMMIT / ROLLBACK.                                                  *)
(***************************************************************************)
NoTx == [open |-> FALSE, aborted |-> FALSE,
         insSnap |-> {}, delSnap |-> {}, insNodes |-> {}, delNodes |-> {}, insSec |-> {}]

DB == [snapshots |-> snapshots, snapshot_nodes |-> snapshot_nodes,
       security_check |-> security_check, tx |-> tx, nextSnapId |-> nextSnapId]

NodesOf(rows, id) == {n \in rows : n.snapshot_id = id}

\* what a statement on connection c sees
VisSnap(d, c) == (d.snapshots \ d.tx[c].delSnap) \cup d.tx[c].insSnap
VisNodes(d, c) == (d.snapshot_nodes \ d.tx[c].delNodes) \cup d.tx[c].insNodes
VisSec(d, c) == d.security_check \cup d.tx[c].insSec

Ok(d, rows) == [err |-> FALSE, rows |-> rows, db |-> d]
\* a failed statement changes nothing, and aborts the transaction it ran in
Fail(d, c) ==
    [err |-> TRUE, rows |-> {},
     db |-> IF d.tx[c].open THEN [d EXCEPT !.tx[c].aborted = TRUE] ELSE d]

\* the connection is lost or the server unavailable: the statement is
\* answered with an error and the server ends the session's transaction
Broken(d, c) == [err |-> TRUE, rows |-> {}, db |-> [d EXCEPT !.tx[c] = NoTx]]

Begin(d, c) ==
    IF d.tx[c].aborted THEN Fail(d, c)
    ELSE Ok([d EXCEPT !.tx[c].open = TRUE], {})

Rollback(d, c) == Ok([d EXCEPT !.tx[c] = NoTx], {})

Commit(d, c) ==
    IF d.tx[c].aborted THEN Rollback(d, c)
    ELSE Ok([d EXCEPT
               !.snapshots = (@ \ d.tx[c].delSnap) \cup d.tx[c].insSnap,
               !.snapshot_nodes = (@ \ d.tx[c].delNodes) \cup d.tx[c].insNodes,
               !.security_check = @ \cup d.tx[c].insSec,
               !.tx[c] = NoTx], {})

\* apply deletes / inserts on connection c: pending inside a transaction,
\* immediate in autocommit mode
Write(d, c, dSnap, dNodes, iSnap, iNodes, iSec) ==
    IF d.tx[c].open
    THEN [d EXCEPT
            !.tx[c].delSnap = @ \cup (dSnap \cap d.snapshots),
            !.tx[c].insSnap = (@ \ dSnap) \cup iSnap,
            !.tx[c].delNodes = @ \cup (dNodes \cap d.snapshot_nodes),
            !.tx[c].insNodes = (@ \ dNodes) \cup iNodes,
            !.tx[c].insSec = @ \cup iSec]
    ELSE [d EXCEPT
            !.snapshots = (@ \ dSnap) \cup iSnap,
            !.snapshot_nodes = (@ \ dNodes) \cup iNodes,
            !.security_check = @ \cup iSec]

\* rows locked by the open transactions of the other connections
LockedSnap(d, c) == UNION {d.tx[o].delSnap : o \in Conn \ {c}}
LockedNodes(d, c) == UNION {d.tx[o].delNodes : o \in Conn \ {c}}
\* snapshot ids key-share locked by the others' pending child inserts
SharedSnapIds(d, c) == {n.snapshot_id : n \in UNION {d.tx[o].insNodes : o \in Conn \ {c}}}


\* SELECT id FROM snapshots WHERE name = $1
SelectSnapshot(d, c, name) ==
    IF d.tx[c].aborted THEN Fail(d, c)
    ELSE Ok(d, {s \in VisSnap(d, c) : s.name = name})

\* DELETE FROM snapshot_nodes WHERE snapshot_id = $1
DeleteNodes(d, c, id) ==
    IF d.tx[c].aborted THEN Fail(d, c)
    ELSE Ok(Write(d, c, {}, NodesOf(VisNodes(d, c), id), {}, {}, {}), {})

\* DELETE FROM snapshots WHERE id = $1   (snapshot_nodes: ON DELETE CASCADE)
DeleteSnapshot(d, c, id) ==
    IF d.tx[c].aborted THEN Fail(d, c)
    ELSE LET gone == {s \in VisSnap(d, c) : s.id = id}
         IN  Ok(Write(d, c, gone,
                      IF gone = {} THEN {} ELSE NodesOf(VisNodes(d, c), id),
                      {}, {}, {}), {})

\* INSERT INTO snapshots (name) VALUES ($1) RETURNING id
\* (name is NOT NULL and carries no UNIQUE constraint; the id is drawn from
\* the sequence, which a rollback does not give back)
InsertSnapshot(d, c, name) ==
    IF d.tx[c].aborted THEN Fail(d, c)
    ELSE LET row == [id |-> d.nextSnapId, name |-> name]
         IN  [err |-> FALSE, rows |-> {row},
              db |-> [Write(d, c, {}, {}, {row}, {}, {}) EXCEPT !.nextSnapId = @ + 1]]

AddrMax == 42

\* node_id SERIAL: an id no existing row carries.  Node ids are only ever
\* compared for equality, so a row is named by its snapshot and the least
\* ordinal free in it, not by a global counter.
AllNodes(d) == d.snapshot_nodes \cup UNION {d.tx[o].insNodes : o \in Conn}
NewNodeId(d, id) ==
    LET used == {n.node_id[2] : n \in NodesOf(AllNodes(d), id)}
    IN  <<id, CHOOSE k \in 1..(Cardinality(used) + 1) : k \notin used>>

\* (mutant) snapshot_id is not checked against snapshots
InsertNode_NoForeignKey(d, c, node, id) ==
    IF \/ d.tx[c].aborted
       \/ node.x \in {NullNum, UndefinedNum, TextNum}
       \/ node.y \in {NullNum, UndefinedNum, TextNum}
       \/ node.address \in {Null, Undefined}
       \/ Len(node.address) > AddrMax
    THEN Fail(d, c)
    ELSE LET row == [node_id |-> NewNodeId(d, id), x |-> node.x, y |-> node.y,
                     address |-> node.address, snapshot_id |-> id]
         IN  Ok(Write(d, c, {}, {}, {}, {row}, {}), {})

\* INSERT INTO snapshot_nodes (x, y, address, snapshot_id) VALUES ($1, $2, $3, $4)
\* x, y are INTEGER NOT NULL, address is NOT NULL (node-pg sends undefined as NULL), address is
\* VARCHAR(42), snapshot_id REFERENCES snapshots(id)
InsertNode(d, c, node, id) ==
    IF \/ d.tx[c].aborted
       \/ node.x \in {NullNum, UndefinedNum, TextNum}
       \/ node.y \in {NullNum, UndefinedNum, TextNum}
       \/ node.address \in {Null, Undefined}
       \/ Len(node.address) > AddrMax
       \/ ~ \E s \in VisSnap(d, c) : s.id = id
    THEN Fail(d, c)
    ELSE LET row == [node_id |-> NewNodeId(d, id), x |-> node.x, y |-> node.y,
                     address |-> node.address, snapshot_id |-> id]
         IN  Ok(Write(d, c, {}, {}, {}, {row}, {}), {})

NodeColumns(rows) ==
    {[node_id |-> n.node_id, x |-> n.x, y |-> n.y, address |-> n.address] : n \in rows}

\* (mutant) the WHERE clause is missing: the nodes of every snapshot
SelectNodes_All(d, c, id) ==
    IF d.tx[c].aborted THEN Fail(d, c)
    ELSE Ok(d, NodeColumns(VisNodes(d, c)))

\* SELECT node_id, x, y, address FROM snapshot_nodes WHERE snapshot_id = $1
SelectNodes(d, c, id) ==
    IF d.tx[c].aborted THEN Fail(d, c)
    ELSE Ok(d, NodeColumns(NodesOf(VisNodes(d, c), id)))


\* the ledger in scan order
TraceRows == [i \in 1..Cardinality(traces) |-> CHOOSE t \in traces : t.trace_id = i]

\* GROUP BY over all selected columns: one row per distinct value
RECURSIVE GroupBy(_)
GroupBy(rows) ==
    IF rows = <<>> THEN <<>>
    ELSE LET rest == GroupBy(Tail(rows))
         IN  IF \E i \in 1..Len(rest) : rest[i] = Head(rows)
             THEN rest
             ELSE <<Head(rows)>> \o rest

\* SELECT from_addr, to_addr, action FROM traces
\*  WHERE action IN ('call','create','create2')
\*    AND from_addr = ANY($1) AND to_addr = ANY($1)
\*  GROUP BY from_addr, to_addr, action
SelectNormalCalls(d, c, addrs) ==
    IF d.tx[c].aborted THEN Fail(d, c)
    ELSE LET Hit(u) == /\ u.action \in {"call", "create", "create2"}
                       /\ u.from_addr \in addrs
                       /\ u.to_addr \in addrs
             hits == SelectSeq(TraceRows, Hit)
         IN  Ok(d, GroupBy([i \in 1..Len(hits) |->
                              [from_addr |-> hits[i].from_addr,
                               to_addr |-> hits[i].to_addr,
                               action |-> hits[i].action]]))

\* (mutant) delegate calls are matched on from_addr
SelectDelegateCalls_ByFrom(d, c, addrs) ==
    IF d.tx[c].aborted THEN Fail(d, c)
    ELSE LET Hit(u) == /\ u.action \in {"delegate_call"}
                       /\ u.from_addr \in addrs
                       /\ u.to_addr \in addrs
             hits == SelectSeq(TraceRows, Hit)
         IN  Ok(d, GroupBy([i \in 1..Len(hits) |->
                              [storage_addr |-> hits[i].storage_addr,
                               to_addr |-> hits[i].to_addr,
                               action |-> hits[i].action]]))

\* SELECT storage_addr, to_addr, action FROM traces
\*  WHERE action IN ('delegate_call')
\*    AND storage_addr = ANY($1) AND to_addr = ANY($1)
\*  GROUP BY storage_addr, to_addr, action
SelectDelegateCalls(d, c, addrs) ==
    IF d.tx[c].aborted THEN Fail(d, c)
    ELSE LET Hit(u) == /\ u.action \in {"delegate_call"}
                       /\ u.storage_addr \in addrs
                       /\ u.to_addr \in addrs
             hits == SelectSeq(TraceRows, Hit)
         IN  Ok(d, GroupBy([i \in 1..Len(hits) |->
                              [storage_addr |-> hits[i].storage_addr,
                               to_addr |-> hits[i].to_addr,
                               action |-> hits[i].action]]))

\* SELECT * FROM security_check WHERE address = $1
SelectSecurity(d, c, address) ==
    IF d.tx[c].aborted THEN Fail(d, c)
    ELSE Ok(d, {s \in VisSec(d, c) : s.address = address})

\* (mutant) the insert replaces the record of the address:
\* INSERT ... ON CONFLICT (address) DO UPDATE
InsertSecurity_Upsert(d, c, address, score, reports) ==
    IF d.tx[c].aborted
    THEN Fail(d, c)
    ELSE LET row == [address |-> address, score |-> score, reports |-> reports]
             old == {s \in VisSec(d, c) : s.address = address}
         IN  [err |-> FALSE, rows |-> {row},
              db |-> [Write(d, c, {}, {}, {}, {}, {row})
                         EXCEPT !.security_check = (@ \ old) \cup {row}]]

\* INSERT INTO security_check (address, score, reports) VALUES ($1, $2, $3::jsonb)
\* RETURNING *     (address is the PRIMARY KEY)
InsertSecurity(d, c, address, score, reports) ==
    IF \/ d.tx[c].aborted
       \/ \E s \in VisSec(d, c) : s.address = address
    THEN Fail(d, c)
    ELSE LET row == [address |-> address, score |-> score, reports |-> reports]
         IN  [err |-> FALSE, rows |-> {row}, db |-> Write(d, c, {}, {}, {}, {}, {row})]

\* SELECT address, contract_name, protocol_id FROM addresses WHERE address = ANY($1)
SelectAddresses(d, c, addrs) ==
    IF d.tx[c].aborted THEN Fail(d, c)
    ELSE Ok(d, {a \in addresses : a.address \in addrs})

\* (mutant) the WHERE clause is missing: every row of the address store
SelectAddress_Any(d, c, address) ==
    IF d.tx[c].aborted THEN Fail(d, c)
    ELSE Ok(d, addresses)

\* SELECT a.*, p.protocol_name, ... FROM addresses a LEFT JOIN protocols p ...
\*  WHERE a.address = $1
SelectAddress(d, c, address) ==
    IF d.tx[c].aborted THEN Fail(d, c)
    ELSE Ok(d, {a \in addresses : a.address = address})

(***************************************************************************)
(* A statement in flight: the operation and its parameters.                *)
(***************************************************************************)
NoNode == [x |-> 0, y |-> 0, address |-> <<>>]
Statement(op) == [op |-> op, name |-> "", id |-> 0, node |-> NoNode,
                  address |-> <<>>, addrs |-> {}, score |-> 0, reports |-> ""]

Exec(d, c, s) ==
    CASE s.op = "BEGIN" -> Begin(d, c)
      [] s.op = "COMMIT" -> Commit(d, c)
      [] s.op = "ROLLBACK" -> Rollback(d, c)
      [] s.op = "SELECT_SNAPSHOT" -> SelectSnapshot(d, c, s.name)
      [] s.op = "DELETE_NODES" -> DeleteNodes(d, c, s.id)
      [] s.op = "DELETE_SNAPSHOT" -> DeleteSnapshot(d, c, s.id)
      [] s.op = "INSERT_SNAPSHOT" -> InsertSnapshot(d, c, s.name)
      [] s.op = "INSERT_NODE" -> InsertNode(d, c, s.node, s.id)
      [] s.op = "SELECT_NODES" -> SelectNodes(d, c, s.id)
      [] s.op = "SELECT_NORMAL" -> SelectNormalCalls(d, c, s.addrs)
      [] s.op = "SELECT_DELEGATE" -> SelectDelegateCalls(d, c, s.addrs)
      [] s.op = "SELECT_SECURITY" -> SelectSecurity(d, c, s.address)
      [] s.op = "INSERT_SECURITY" -> InsertSecurity(d, c, s.address, s.score, s.reports)
      [] s.op = "SELECT_ADDRESS" -> SelectAddress(d, c, s.address)
      [] s.op = "SELECT_ADDRESSES" -> SelectAddresses(d, c, s.addrs)

\* a statement waits while a row it must lock is locked by another
\* connection's open transaction (READ COMMITTED row locks, the key-share
\* lock a child insert takes on its parent, the unique-index wait)
Blocked(d, c, s) ==
    /\ ~ d.tx[c].aborted
    /\ CASE s.op = "DELETE_NODES" ->
              NodesOf(d.snapshot_nodes, s.id) \cap LockedNodes(d, c) # {}
         [] s.op = "DELETE_SNAPSHOT" ->
              \/ \E row \in LockedSnap(d, c) : row.id = s.id
              \/ /\ \E row \in VisSnap(d, c) : row.id = s.id
                 /\ \/ s.id \in SharedSnapIds(d, c)
                    \/ NodesOf(d.snapshot_nodes, s.id) \cap LockedNodes(d, c) # {}
         [] s.op = "INSERT_NODE" ->
              \E row \in LockedSnap(d, c) : row.id = s.id
         [] s.op = "INSERT_SECURITY" ->
              \E o \in Conn \ {c} : \E row \in d.tx[o].insSec : row.address = s.address
         [] OTHER -> FALSE


(***************************************************************************)
(* Requests.  req[r] is the handler's frame: its inputs, its locals, the   *)
(* statement it awaits (pc) and the pool client that statement runs on     *)
(* (conn, 0 while it has none), and the response it has sent.  The last    *)
(* fields record what happened (ghosts): the statements and HTTP calls     *)
(* issued, the scorer's reply, the committed tables and the requests       *)
(* already answered when this one arrived (before, prev), and the requests *)
(* that had issued their COMMIT before this one did (commitPrev), the      *)
(* client its BEGIN ran on (txConn) and the number of its statements that  *)
(* were answered with an error (dbErrors).                                 *)
(***************************************************************************)
NewReq ==
    [kind |-> "none", pc |-> "new", conn |-> 0,
     name |-> "", isArray |-> TRUE, nodes |-> <<>>,
     i |-> 0, existing |-> 0, snapshotId |-> 0,
     address |-> <<>>, meta |-> "", score |-> 0, reports |-> "",
     status |-> 0, detail |-> "", cached |-> FALSE,
     nodesResult |-> {}, normalCalls |-> <<>>,
     out_id |-> 0, out_nodes |-> {}, out_traces |-> <<>>,
     queries |-> 0, httpCalls |-> 0, scorerCalls |-> 0,
     reply |-> [fails |-> FALSE, score |-> 0, reports |-> ""],
     query |-> [address |-> Undefined, tx |-> "", block |-> ""],
     upstream |-> [fails |-> FALSE, rows |-> <<>>],
     metadata |-> <<>>,
     txConn |-> 0, dbErrors |-> 0,
     commitPrev |-> {},
     before |-> [snapshots |-> {}, snapshot_nodes |-> {}, security_check |-> {}],
     prev |-> {}]

QueryPcs == {"BEGIN", "CHECK", "DEL_NODES", "DEL_SNAP", "CREATE", "NODE", "COMMIT",
             "ROLLBACK400", "ROLLBACK500",
             "R_SNAP", "R_NODES", "R_NORMAL", "R_DELEGATE",
             "S_CHECK", "S_META", "S_INSERT", "T_META"}

Started(q) == q.pc # "new"
Ended(q) == q.pc = "done"
Active(q) == Started(q) /\ ~Ended(q)

\* res.status(s).json(...) / res.json(...): the handler answers and returns
Respond(q, s, detail) == [q EXCEPT !.pc = "done", !.status = s, !.detail = detail]

(***************************************************************************)
(* pg.Pool: pool.query(text, params) checks a client out, runs the one     *)
(* statement on it and releases it.  An idle client is taken from the top  *)
(* of the idle stack, else a new client is created while fewer than max    *)
(* exist, else the request queues; a released client goes to the first     *)
(* queued request, else onto the idle stack.                               *)
(***************************************************************************)
Released(S, c) ==
    IF S.pending # <<>>
    THEN [S EXCEPT !.req[Head(S.pending)].conn = c, !.pending = Tail(@)]
    ELSE [S EXCEPT !.idle = Append(@, c)]

Acquired(S, r) ==
    IF S.idle # <<>>
    THEN [S EXCEPT !.req[r].conn = S.idle[Len(S.idle)],
                   !.idle = SubSeq(@, 1, Len(@) - 1)]
    ELSE IF S.numClients < poolMax
    THEN [S EXCEPT !.req[r].conn = S.numClients + 1, !.numClients = @ + 1]
    ELSE [S EXCEPT !.pending = Append(@, r)]

\* the handler of request r has run up to its next await and is now q
IssuedCommit(q) == q.kind = "save" /\ (q.pc = "COMMIT" \/ (q.pc = "done" /\ q.status = 200))

Await(S, r, q) ==
    LET q1 == IF q.pc = "COMMIT"
              THEN [q EXCEPT !.commitPrev = {p \in Req \ {r} : IssuedCommit(S.req[p])}]
              ELSE q
        S1 == [S EXCEPT !.req[r] = q1]
    IN  IF q.pc \in QueryPcs
        THEN Acquired([S1 EXCEPT !.req[r].queries = @ + 1], r)
        ELSE S1

Pool == [idle |-> idle, numClients |-> numClients, pending |-> pending, req |-> req]

SetPool(S) ==
    /\ idle' = S.idle
    /\ numClients' = S.numClients
    /\ pending' = S.pending
    /\ req' = S.req
    /\ poolMax' = poolMax

SetDB(d) ==
    /\ snapshots' = d.snapshots
    /\ snapshot_nodes' = d.snapshot_nodes
    /\ security_check' = d.security_check
    /\ tx' = d.tx
    /\ nextSnapId' = d.nextSnapId


(***************************************************************************)
(* Request inputs.                                                         *)
(***************************************************************************)
Node(x, y, a) == [x |-> x, y |-> y, address |-> a]
NodeA == Node(1, 2, AddrA)
NodeB == Node(3, 4, AddrB)
NoX == Node(UndefinedNum, 2, AddrA)
NoY == Node(1, UndefinedNum, AddrA)
NoAddress == Node(1, 2, Undefined)
NullX == Node(NullNum, 2, AddrB)
TextX == Node(TextNum, 2, AddrA)
NullAddress == Node(1, 2, Null)
EmptyAddress == Node(1, 2, <<>>)

ValidNodes == {NodeA, NodeB}
NodeValues == ValidNodes \cup {NoX, NoY, NoAddress, NullX}

SeqsUpTo(S, n) == UNION {[1..m -> S] : m \in 0..n}

\* request bodies of POST /api/addresses/snapshot: under one name every node
\* list up to MaxNodes, under the other name two lists and four lists with
\* a node whose address is "" or null or whose x is null or text, and the
\* two malformed bodies
Body(n, ns) == [name |-> n, isArray |-> TRUE, nodes |-> ns]
BadBodies == {Body("", <<NodeA>>), [name |-> "s1", isArray |-> FALSE, nodes |-> <<>>]}
AllSaveBodies ==
    {Body("s1", ns) : ns \in SeqsUpTo(NodeValues \ {NullX}, MaxNodes)}
    \cup {Body("s2", <<NodeB>>), Body("s2", <<NodeA, NoY>>)}
    \cup {Body("s2", <<EmptyAddress>>), Body("s2", <<NodeA, TextX>>),
          Body("s2", <<NullAddress>>), Body("s2", <<NullX>>)}
    \cup BadBodies
\* the bodies sent by requests that run concurrently
SaveBodies ==
    {Body(n, ns) : n \in Names,
                   ns \in {<<NodeA>>, <<NodeB, NodeA>>, <<NodeA, NoAddress>>, <<NullX>>}}

(***************************************************************************)
(* POST /api/addresses/snapshot                                            *)
(***************************************************************************)
\* node.x === undefined || node.y === undefined || node.address === undefined
MissingProperty(node) ==
    \/ node.x = UndefinedNum
    \/ node.y = UndefinedNum
    \/ node.address = Undefined

\* for (const node of snapshot_nodes): the loop head at node i
InsertNodes(q, i) ==
    IF i > Len(q.nodes)
    THEN [q EXCEPT !.pc = "COMMIT", !.i = i]
    ELSE IF MissingProperty(q.nodes[i])
    THEN [q EXCEPT !.pc = "ROLLBACK400", !.i = i]
    ELSE [q EXCEPT !.pc = "NODE", !.i = i]

\* (mutant) the existing snapshot is kept and a second one is created
ReplaceExisting_Keep(q, rows, first) == [q EXCEPT !.pc = "CREATE"]

\* if (existingSnapshot.rows.length > 0) { delete its nodes, delete it }
ReplaceExisting(q, rows, first) ==
    IF rows # {}
    THEN [q EXCEPT !.pc = "DEL_NODES", !.existing = first.id]
    ELSE [q EXCEPT !.pc = "CREATE"]

\* (mutant) the transaction is committed instead of rolled back
OnInvalidNode_Commit == Statement("COMMIT")

\* the statement sent when a node fails the check
OnInvalidNode == Statement("ROLLBACK")

\* the statement the handler awaits at q.pc
SaveStatement(q) ==
    CASE q.pc = "BEGIN" -> Statement("BEGIN")
      [] q.pc = "CHECK" -> [Statement("SELECT_SNAPSHOT") EXCEPT !.name = q.name]
      [] q.pc = "DEL_NODES" -> [Statement("DELETE_NODES") EXCEPT !.id = q.existing]
      [] q.pc = "DEL_SNAP" -> [Statement("DELETE_SNAPSHOT") EXCEPT !.id = q.existing]
      [] q.pc = "CREATE" -> [Statement("INSERT_SNAPSHOT") EXCEPT !.name = q.name]
      [] q.pc = "NODE" -> [Statement("INSERT_NODE") EXCEPT !.node = q.nodes[q.i],
                                                           !.id = q.snapshotId]
      [] q.pc = "COMMIT" -> Statement("COMMIT")
      [] q.pc = "ROLLBACK400" -> OnInvalidNode
      [] q.pc = "ROLLBACK500" -> Statement("ROLLBACK")

\* the handler from the completion of the statement at q.pc (result res,
\* first is rows[0]) to its next await or its response
SaveAfter(q, res, first) ==
    CASE q.pc = "ROLLBACK500" /\ ~res.err ->
            Respond(q, 500, "error.message")
      [] q.pc = "ROLLBACK500" /\ res.err ->
            [q EXCEPT !.pc = "rejected"]
      [] q.pc # "ROLLBACK500" /\ res.err ->
            [q EXCEPT !.pc = "ROLLBACK500"]
      [] q.pc = "ROLLBACK400" /\ ~res.err ->
            Respond(q, 400, "Each node must have x, y, and address properties")
      [] q.pc = "BEGIN" /\ ~res.err ->
            [q EXCEPT !.pc = "CHECK", !.txConn = q.conn]
      [] q.pc = "CHECK" /\ ~res.err ->
            ReplaceExisting(q, res.rows, first)
      [] q.pc = "DEL_NODES" /\ ~res.err ->
            [q EXCEPT !.pc = "DEL_SNAP"]
      [] q.pc = "DEL_SNAP" /\ ~res.err ->
            [q EXCEPT !.pc = "CREATE"]
      [] q.pc = "CREATE" /\ ~res.err ->
            InsertNodes([q EXCEPT !.snapshotId = first.id], 1)
      [] q.pc = "NODE" /\ ~res.err ->
            InsertNodes(q, q.i + 1)
      [] q.pc = "COMMIT" /\ ~res.err ->
            [Respond(q, 200, "Snapshot created/updated successfully")
                EXCEPT !.out_id = q.snapshotId]

\* the request arrives: body validation, then BEGIN
SaveStart(q, body) ==
    LET q1 == [q EXCEPT !.kind = "save", !.name = body.name,
                        !.isArray = body.isArray, !.nodes = body.nodes]
    IN  IF body.name = "" \/ ~body.isArray
        THEN Respond(q1, 400, "Invalid request body")
        ELSE [q1 EXCEPT !.pc = "BEGIN"]


(***************************************************************************)
(* GET /api/snapshot/:snapshotName                                         *)
(***************************************************************************)
\* const addresses = nodesResult.rows.map(node => node.address)
AddressesOf(rows) == {n.address : n \in rows}

ReadStatement(q) ==
    CASE q.pc = "R_SNAP" -> [Statement("SELECT_SNAPSHOT") EXCEPT !.name = q.name]
      [] q.pc = "R_NODES" -> [Statement("SELECT_NODES") EXCEPT !.id = q.snapshotId]
      [] q.pc = "R_NORMAL" ->
            [Statement("SELECT_NORMAL") EXCEPT !.addrs = AddressesOf(q.nodesResult)]
      [] q.pc = "R_DELEGATE" ->
            [Statement("SELECT_DELEGATE") EXCEPT !.addrs = AddressesOf(q.nodesResult)]

\* (mutant) the short-circuit for a snapshot without nodes is missing
NoAddresses_Never(rows) == FALSE

\* if (addresses.length === 0)
NoAddresses(rows) == AddressesOf(rows) = {}

\* (mutant) delegate edges are renamed to the schema of normal edges
CombineTraces_Normalized(normal, delegate) ==
    [i \in 1..Len(normal) |->
        [from_addr |-> normal[i].from_addr, to_addr |-> normal[i].to_addr,
         action |-> normal[i].action]]
    \o [i \in 1..Len(delegate) |->
        [from_addr |-> delegate[i].storage_addr, to_addr |-> delegate[i].to_addr,
         action |-> delegate[i].action]]

\* const traces = [...normalCallsResult.rows.map(...), ...delegateCallsResult.rows.map(...)]
CombineTraces(normal, delegate) ==
    [i \in 1..Len(normal) |->
        [from_addr |-> normal[i].from_addr, to_addr |-> normal[i].to_addr,
         action |-> normal[i].action]]
    \o [i \in 1..Len(delegate) |->
        [storage_addr |-> delegate[i].storage_addr, to_addr |-> delegate[i].to_addr,
         action |-> delegate[i].action]]

ReadAfter(q, res, first) ==
    CASE res.err ->
            Respond(q, 500, "error.message")
      [] q.pc = "R_SNAP" /\ ~res.err ->
            IF res.rows = {}
            THEN Respond(q, 404, "Snapshot not found")
            ELSE [q EXCEPT !.pc = "R_NODES", !.snapshotId = first.id]
      [] q.pc = "R_NODES" /\ ~res.err ->
            IF NoAddresses(res.rows)
            THEN [Respond(q, 200, "") EXCEPT !.out_id = q.snapshotId,
                                             !.out_nodes = {}, !.out_traces = <<>>]
            ELSE [q EXCEPT !.pc = "R_NORMAL", !.nodesResult = res.rows]
      [] q.pc = "R_NORMAL" /\ ~res.err ->
            [q EXCEPT !.pc = "R_DELEGATE", !.normalCalls = res.rows]
      [] q.pc = "R_DELEGATE" /\ ~res.err ->
            [Respond(q, 200, "") EXCEPT !.out_id = q.snapshotId,
                                        !.out_nodes = q.nodesResult,
                                        !.out_traces = CombineTraces(q.normalCalls, res.rows)]

ReadStart(q, name) == [q EXCEPT !.kind = "read", !.name = name, !.pc = "R_SNAP"]

(***************************************************************************)
(* GET /api/security/check/:address                                        *)
(***************************************************************************)
\* (mutant) the pattern is not anchored at the end: /^0x[a-fA-F0-9]{40}/
IsAddress_Unanchored(a) ==
    /\ Len(a) >= HexLen + 2
    /\ a[1] = "0"
    /\ a[2] = "x"
    /\ \A i \in 3..(HexLen + 2) : a[i] \in HexChars

\* address.match(/^0x[a-fA-F0-9]{40}$/)
IsAddress(a) ==
    /\ Len(a) = HexLen + 2
    /\ a[1] = "0"
    /\ a[2] = "x"
    /\ \A i \in 3..Len(a) : a[i] \in HexChars

\* what the security server may answer to the POST: no answer / an error
\* status, or a body with or without score and reports
NoScore == UndefinedNum
NoReports == "undefined"
ScorerReplies ==
    {[fails |-> TRUE, score |-> NoScore, reports |-> NoReports]}
    \cup {[fails |-> FALSE, score |-> s, reports |-> "report1"] : s \in {NoScore, 0, 7, 9}}
    \cup {[fails |-> FALSE, score |-> 7, reports |-> NoReports]}

CheckStatement(q) ==
    CASE q.pc = "S_CHECK" -> [Statement("SELECT_SECURITY") EXCEPT !.address = q.address]
      [] q.pc = "S_META" -> [Statement("SELECT_ADDRESS") EXCEPT !.address = q.address]
      [] q.pc = "S_INSERT" ->
            [Statement("INSERT_SECURITY") EXCEPT !.address = q.address,
                                                  !.score = q.score,
                                                  !.reports = q.reports]

\* (mutant) a refused insert is answered as a success
OnInsertError_Success(q) == [Respond(q, 200, "") EXCEPT !.cached = FALSE]

\* catch (serviceError) around the INSERT: the request is answered 500
OnInsertError(q) == Respond(q, 500, "Error contacting security service")

\* S_META is the request to the server's own /api/metadata/address/:address,
\* whose handler runs its SELECT on the same pool and answers 404 for no
\* row and 500 for a failed query; axios throws on both
CheckAfter(q, res, first) ==
    CASE q.pc = "S_CHECK" /\ res.err ->
            Respond(q, 500, "error.message")
      [] q.pc = "S_CHECK" /\ ~res.err ->
            IF res.rows # {}
            THEN [Respond(q, 200, "") EXCEPT !.score = first.score,
                                             !.reports = first.reports,
                                             !.cached = TRUE]
            ELSE [q EXCEPT !.pc = "S_META", !.httpCalls = @ + 1]
      [] q.pc = "S_META" ->
            IF res.err \/ res.rows = {}
            THEN Respond(q, 500, "Error contacting security service")
            ELSE [q EXCEPT !.pc = "S_SCORE", !.meta = first.contract_name,
                           !.httpCalls = @ + 1, !.scorerCalls = @ + 1]
      [] q.pc = "S_INSERT" ->
            IF res.err
            THEN OnInsertError(q)
            ELSE [Respond(q, 200, "") EXCEPT !.score = first.score,
                                             !.reports = first.reports,
                                             !.cached = FALSE]

\* !securityResponse.data || !securityResponse.data.score || !securityResponse.data.reports
\* (JS truthiness: undefined and 0 are both falsy)
InvalidResponse(reply) ==
    \/ reply.score = NoScore \/ reply.score = 0
    \/ reply.reports = NoReports

\* the answer of axios.post(SECURITY_SERVER_URL, ...) arrives
CheckScored(q, reply) ==
    IF reply.fails \/ InvalidResponse(reply)
    THEN Respond([q EXCEPT !.reply = reply], 500, "Error contacting security service")
    ELSE [q EXCEPT !.pc = "S_INSERT", !.reply = reply,
                   !.score = reply.score, !.reports = reply.reports]

CheckStart(q, address) ==
    LET q1 == [q EXCEPT !.kind = "check", !.address = address]
    IN  IF ~IsAddress(address)
        THEN Respond(q1, 400, "Invalid Ethereum address format")
        ELSE [q1 EXCEPT !.pc = "S_CHECK"]

AllCheckAddresses ==
    {AddrA, AddrB, AddrZ, AddrShort, AddrLong, AddrUpperX, AddrNoPrefix, AddrNonHex}
\* the addresses asked for by requests that run concurrently
CheckAddresses == {AddrA, AddrB, AddrZ}


(***************************************************************************)
(* GET /api/trace?address=|tx=|block=                                      *)
(***************************************************************************)
\* a row of the trace source; storage_addr is null outside delegate calls
Row(f, t, s, a) == [from_addr |-> f, to_addr |-> t, storage_addr |-> s, action |-> a]

\* what the trace source may answer: no answer / an error status, or rows
TraceSourceReplies ==
    {[fails |-> TRUE, rows |-> <<>>]}
    \cup {[fails |-> FALSE, rows |-> rows] :
            rows \in {<<>>,
                      <<Row(AddrA, AddrB, Null, "call")>>,
                      <<Row(AddrA, AddrB, Null, "call"), Row(AddrA, AddrB, Null, "call"),
                        Row(AddrC, AddrB, AddrA, "delegate_call")>>,
                      <<Row(AddrB, AddrC, Null, "create")>>}}

\* req.query: each parameter absent or given
TraceQueries ==
    [address : {Undefined, AddrA}, tx : {"", "0xhash"}, block : {"", "17"}]

\* if (trace.from_addr): null, undefined and "" are falsy
Truthy(a) == a \notin {Null, Undefined, <<>>}

\* uniqueAddresses: the from_addr, to_addr and storage_addr of the traces
UniqueAddresses(rows) ==
    {a \in UNION {{rows[i].from_addr, rows[i].to_addr, rows[i].storage_addr} :
                    i \in 1..Len(rows)} : Truthy(a)}

NullText == "null"

\* addressResult.rows.forEach(row => metadata[row.address] = {contract_name})
FromRows(rows) ==
    [a \in {row.address : row \in rows} |->
        [contract_name |-> (CHOOSE row \in rows : row.address = a).contract_name]]

\* (mutant) addresses without a row are left out
FillMissing_Omit(md, addressList) == md

\* addressList.forEach(addr => if (!metadata[addr]) metadata[addr] = {contract_name: null})
FillMissing(md, addressList) ==
    [a \in DOMAIN md \cup addressList |->
        IF a \in DOMAIN md THEN md[a] ELSE [contract_name |-> NullText]]

\* res.json({traces, metadata})
TraceAnswer(q, md) ==
    [Respond(q, 200, "") EXCEPT !.out_traces = q.upstream.rows, !.metadata = md]

\* (mutant) a failed lookup fails the request
OnLookupError_Fail(q) == Respond(q, 500, "error.message")

\* catch (dbError): the request goes on with metadata = {}
OnLookupError(q) == TraceAnswer(q, <<>>)

TraceStatement(q) ==
    [Statement("SELECT_ADDRESSES") EXCEPT !.addrs = UniqueAddresses(q.upstream.rows)]

\* the address query settles
TraceAfter(q, res, first) ==
    IF res.err
    THEN OnLookupError(q)
    ELSE TraceAnswer(q, FillMissing(FromRows(res.rows), UniqueAddresses(q.upstream.rows)))

\* the answer of axios.get(LOGIC_SERVER_URL/trace_address|trace_block) arrives
TraceFetched(q, reply) ==
    LET q1 == [q EXCEPT !.upstream = reply]
    IN  IF reply.fails
        THEN Respond(q1, 404, IF q.query.address # Undefined
                              THEN "Address not found" ELSE "Block not found")
        ELSE IF UniqueAddresses(reply.rows) = {}
        THEN TraceAnswer(q1, <<>>)
        ELSE [q1 EXCEPT !.pc = "T_META"]

\* (mutant) tx is looked at before address
TraceStart_TxFirst(q, query) ==
    LET q1 == [q EXCEPT !.kind = "trace", !.query = query]
    IN  IF query.tx # ""
        THEN Respond(q1, 501, "Transaction lookup not implemented")
        ELSE IF query.address # Undefined \/ query.block # ""
        THEN [q1 EXCEPT !.pc = "T_SOURCE", !.httpCalls = @ + 1]
        ELSE Respond(q1, 400, "Provide address, tx, or block in query params")

\* if (address) ... else if (tx) ... else if (block) ... else 400
TraceStart(q, query) ==
    LET q1 == [q EXCEPT !.kind = "trace", !.query = query]
    IN  IF query.address # Undefined
        THEN [q1 EXCEPT !.pc = "T_SOURCE", !.httpCalls = @ + 1]
        ELSE IF query.tx # ""
        THEN Respond(q1, 501, "Transaction lookup not implemented")
        ELSE IF query.block # ""
        THEN [q1 EXCEPT !.pc = "T_SOURCE", !.httpCalls = @ + 1]
        ELSE Respond(q1, 400, "Provide address, tx, or block in query params")


(***************************************************************************)
(* The system.                                                             *)
(***************************************************************************)
Init ==
    /\ snapshots = {}
    /\ snapshot_nodes = {}
    /\ security_check = {}
    /\ tx = [c \in Conn |-> NoTx]
    /\ nextSnapId = 1
    /\ idle = <<>>
    /\ numClients = 0
    /\ poolMax \in 1..MaxClients
    /\ pending = <<>>
    /\ req = [r \in Req |-> NewReq]

\* requests are numbered in the order they arrive
Arrives(r) ==
    /\ req[r].pc = "new"
    /\ \A p \in 1..(r - 1) : Started(req[p])
    /\ Cardinality({p \in Req : Active(req[p])}) < MaxActive

\* the frame of a request that arrives now
Fresh(r) ==
    [req[r] EXCEPT
        !.prev = {p \in Req : Ended(req[p])},
        !.before = [snapshots |-> snapshots, snapshot_nodes |-> snapshot_nodes,
                    security_check |-> security_check]]

StatementOf(q) ==
    CASE q.kind = "save" -> SaveStatement(q)
      [] q.kind = "read" -> ReadStatement(q)
      [] q.kind = "check" -> CheckStatement(q)
      [] q.kind = "trace" -> TraceStatement(q)

After(q, res, first) ==
    CASE q.kind = "save" -> SaveAfter(q, res, first)
      [] q.kind = "read" -> ReadAfter(q, res, first)
      [] q.kind = "check" -> CheckAfter(q, res, first)
      [] q.kind = "trace" -> TraceAfter(q, res, first)

\* the candidates for rows[0] of a result (a SELECT without ORDER BY)
NoRow == [id |-> 0]
Firsts(q, res) ==
    IF /\ ~res.err
       /\ q.pc \in {"CHECK", "CREATE", "R_SNAP", "S_CHECK", "S_META", "S_INSERT"}
       /\ res.rows # {}
    THEN res.rows
    ELSE {NoRow}

\* the statement request r awaits completes on its client; the client is
\* released and the handler runs on to its next await
Complete(r) ==
    /\ req[r].conn # 0
    /\ LET q == req[r]
           c == q.conn
           s == StatementOf(q)
       IN  /\ ~Blocked(DB, c, s)
           /\ LET res == Exec(DB, c, s)
              IN  /\ SetDB(res.db)
                  /\ \E first \in Firsts(q, res) :
                       SetPool(Await(Released([Pool EXCEPT !.req[r].conn = 0], c), r,
                                     [After(q, res, first) EXCEPT
                                         !.conn = 0,
                                         !.dbErrors = @ + (IF res.err THEN 1 ELSE 0)]))

SaveArrives(r, bodies) ==
    /\ Arrives(r)
    /\ \E body \in bodies : SetPool(Await(Pool, r, SaveStart(Fresh(r), body)))
    /\ UNCHANGED dbvars

ReadArrives(r) ==
    /\ Arrives(r)
    /\ \E name \in Names : SetPool(Await(Pool, r, ReadStart(Fresh(r), name)))
    /\ UNCHANGED dbvars

CheckArrives(r, as) ==
    /\ Arrives(r)
    /\ \E a \in as : SetPool(Await(Pool, r, CheckStart(Fresh(r), a)))
    /\ UNCHANGED dbvars

StartSave(r) == SaveArrives(r, SaveBodies)
StartRead(r) == ReadArrives(r)
StartCheck(r) == CheckArrives(r, CheckAddresses)

SaveStep(r) == req[r].kind = "save" /\ Complete(r)
ReadStep(r) == req[r].kind = "read" /\ Complete(r)
CheckStep(r) == req[r].kind = "check" /\ Complete(r)

\* the answer of the security server arrives
ScorerReply(r) ==
    /\ req[r].pc = "S_SCORE"
    /\ \E reply \in ScorerReplies : SetPool(Await(Pool, r, CheckScored(req[r], reply)))
    /\ UNCHANGED dbvars

\* requests arrive at any time and are served interleaved
Next ==
    \E r \in Req :
        \/ StartSave(r)
        \/ SaveStep(r)
        \/ StartRead(r)
        \/ ReadStep(r)
        \/ StartCheck(r)
        \/ CheckStep(r)
        \/ ScorerReply(r)

Spec == Init /\ [][Next]_vars


(***************************************************************************)
(* The same handlers serving one request at a time: a request arrives only *)
(* when no other is in flight, with any body or address of the wider input *)
(* sets.                                                                   *)
(***************************************************************************)
Quiet == \A p \in Req : ~Active(req[p])

InitSeq == Init /\ poolMax = MaxClients

StartSaveAlone(r) == Quiet /\ SaveArrives(r, AllSaveBodies)
StartReadAlone(r) == Quiet /\ ReadArrives(r)
StartCheckAlone(r) == Quiet /\ CheckArrives(r, AllCheckAddresses)

NextSeq ==
    \E r \in Req :
        \/ StartSaveAlone(r)
        \/ SaveStep(r)
        \/ StartReadAlone(r)
        \/ ReadStep(r)
        \/ StartCheckAlone(r)
        \/ CheckStep(r)
        \/ ScorerReply(r)

SpecSeq == InitSeq /\ [][NextSeq]_vars


(***************************************************************************)
(* Failures of the database and of the upstream services.  A statement in  *)
(* flight may be answered with an error; a handler whose promise rejects   *)
(* (the ROLLBACK awaited inside the catch block fails) sends no response   *)
(* itself: the request stays unanswered unless the framework's own error   *)
(* handling answers 500.                                                   *)
(***************************************************************************)
Unhandled(q) == {[q EXCEPT !.pc = "rejected"], Respond(q, 500, "Internal Server Error")}

\* the statement request r awaits is answered with an error
Fault(r) ==
    /\ req[r].conn # 0
    /\ LET q == req[r]
           c == q.conn
           res == Broken(DB, c)
           q2 == After(q, res, NoRow)
       IN  /\ SetDB(res.db)
           /\ \E q3 \in (IF q2.pc = "rejected" THEN Unhandled(q) ELSE {q2}) :
                 SetPool(Await(Released([Pool EXCEPT !.req[r].conn = 0], c), r,
                               [q3 EXCEPT !.conn = 0, !.dbErrors = @ + 1]))

TraceArrives(r) ==
    /\ Arrives(r)
    /\ \E query \in TraceQueries : SetPool(Await(Pool, r, TraceStart(Fresh(r), query)))
    /\ UNCHANGED dbvars

\* the answer of the trace source arrives
TraceSourceReply(r) ==
    /\ req[r].pc = "T_SOURCE"
    /\ \E reply \in TraceSourceReplies : SetPool(Await(Pool, r, TraceFetched(req[r], reply)))
    /\ UNCHANGED dbvars

TraceStep(r) == req[r].kind = "trace" /\ Complete(r)

\* no request is waiting for a statement or an upstream answer
Settled == \A p \in Req : Active(req[p]) => req[p].pc = "rejected"

FaultBodies == {Body("s1", <<NodeA>>), Body("s1", <<NodeB, NoY>>)}

StartSaveFault(r) == Settled /\ SaveArrives(r, FaultBodies)
StartTraceAlone(r) == Settled /\ TraceArrives(r)
StartCheckFault(r) == Settled /\ CheckArrives(r, {AddrA})

\* trace requests, security checks and saves served one at a time, any
\* statement of theirs possibly failing
NextFault ==
    \E r \in Req :
        \/ StartTraceAlone(r)
        \/ TraceSourceReply(r)
        \/ TraceStep(r)
        \/ StartCheckFault(r)
        \/ CheckStep(r)
        \/ ScorerReply(r)
        \/ StartSaveFault(r)
        \/ SaveStep(r)
        \/ Fault(r)

SpecFault == InitSeq /\ [][NextFault]_vars

\* saves alone, the database answering every statement sooner or later
NextLive ==
    \E r \in Req :
        \/ StartSaveFault(r)
        \/ SaveStep(r)
        \/ Fault(r)

SpecLive ==
    /\ InitSeq /\ [][NextLive]_vars
    /\ \A r \in Req : WF_vars(SaveStep(r) \/ Fault(r))


(***************************************************************************)
(* Properties.                                                             *)
(***************************************************************************)
Save(r) == req[r].kind = "save"
Read(r) == req[r].kind = "read"
Check(r) == req[r].kind = "check"
Answered(r, s) == Ended(req[r]) /\ req[r].status = s

\* p was answered before r arrived
Before(p, r) == Started(req[r]) /\ p \in req[r].prev
\* p and r were in flight at the same time
Overlap(p, r) == /\ p # r
                 /\ Started(req[p]) /\ Started(req[r])
                 /\ ~Before(p, r) /\ ~Before(r, p)

RowsNamed(rows, n) == {s \in rows : s.name = n}
\* the committed nodes of the snapshots called n
StoredNodes(n) ==
    {nd \in snapshot_nodes : \E s \in RowsNamed(snapshots, n) : nd.snapshot_id = s.id}

\* rows holds exactly the nodes of list: as many rows, and every (x, y,
\* address) as often as the list has it
Occurs(list, nd) == Cardinality({i \in 1..Len(list) : list[i] = nd})
SameNodes(rows, list) ==
    /\ Cardinality(rows) = Len(list)
    /\ \A nd \in NodeValues :
         Cardinality({row \in rows : Node(row.x, row.y, row.address) = nd}) = Occurs(list, nd)

\* r is the last save of its name to have arrived
LastSaveOfName(r) ==
    \A p \in Req \ {r} :
        (Save(p) /\ Started(req[p]) /\ req[p].name = req[r].name) => Before(p, r)

\* C1: after save(name, N1) and then save(name, N2) have both succeeded one
\* after the other, the nodes stored under the name are exactly N2 and one
\* snapshot row carries the name.
C1_ReplaceIsTotal ==
    \A r1, r2 \in Req :
        ( /\ Save(r1) /\ Save(r2)
          /\ req[r1].name = req[r2].name
          /\ Answered(r1, 200) /\ Answered(r2, 200)
          /\ Before(r1, r2)
          /\ LastSaveOfName(r2) )
        => /\ SameNodes(StoredNodes(req[r2].name), req[r2].nodes)
           /\ RowsNamed(snapshots, req[r2].name) = {[id |-> req[r2].out_id, name |-> req[r2].name]}

\* a second save has replaced a first one whose nodes were different and
\* partly the same
C1_Witness ==
    \E r1, r2 \in Req :
        /\ Save(r1) /\ Save(r2)
        /\ req[r1].name = req[r2].name
        /\ Answered(r1, 200) /\ Answered(r2, 200)
        /\ Before(r1, r2)
        /\ LastSaveOfName(r2)
        /\ req[r1].nodes = <<NodeA, NodeB>>
        /\ req[r2].nodes = <<NodeB, NodeB>>

\* r is the last request to have arrived
LastRequest(r) == \A p \in Req \ {r} : Started(req[p]) => Before(p, r)

\* a save whose body passes the first check and whose list has a node
\* with x, y or address missing
SaveWithInvalidNode(r) ==
    /\ Save(r)
    /\ req[r].name # "" /\ req[r].isArray
    /\ \E i \in 1..Len(req[r].nodes) : MissingProperty(req[r].nodes[i])

\* rd reads the name of r, after r, with no save in between
ReadsAfter(rd, r) ==
    /\ Read(rd)
    /\ req[rd].name = req[r].name
    /\ Before(r, rd)
    /\ ~ \E p \in Req : Save(p) /\ Before(r, p) /\ Before(p, rd)

\* C2: a save that meets a node with x, y or address missing, at any
\* position, answers 400 and is undone as a whole: the committed tables are
\* what they were when it arrived, no transaction stays open, and a later
\* read of the name answers not-found if the name was new and the prior
\* snapshot with its prior nodes if it existed.
C2_RollbackIsTotal ==
    \A r \in Req :
        (SaveWithInvalidNode(r) /\ Ended(req[r]))
        => /\ req[r].status = 400
           /\ LastRequest(r) =>
                /\ snapshots = req[r].before.snapshots
                /\ snapshot_nodes = req[r].before.snapshot_nodes
                /\ \A c \in Conn : tx[c] = NoTx
           /\ \A rd \in Req :
                (ReadsAfter(rd, r) /\ Ended(req[rd]))
                => IF RowsNamed(req[r].before.snapshots, req[r].name) = {}
                   THEN req[rd].status = 404
                   ELSE /\ req[rd].status = 200
                        /\ \E s \in RowsNamed(req[r].before.snapshots, req[r].name) :
                             /\ req[rd].out_id = s.id
                             /\ req[rd].out_nodes =
                                  NodeColumns(NodesOf(req[r].before.snapshot_nodes, s.id))

\* a replace attempt failed at its second node, after the delete and one
\* insert, and the read that followed returned the prior node
C2_Witness ==
    \E r0, r, rd \in Req :
        /\ Save(r0) /\ Answered(r0, 200) /\ req[r0].nodes = <<NodeB>>
        /\ req[r0].name = req[r].name
        /\ Before(r0, r)
        /\ SaveWithInvalidNode(r) /\ Answered(r, 400)
        /\ req[r].nodes = <<NodeA, NoAddress>>
        /\ req[r].existing = req[r0].out_id
        /\ ReadsAfter(rd, r) /\ Answered(rd, 200)
        /\ SameNodes(req[rd].out_nodes, <<NodeB>>)

\* the pool has a client for every request in flight, so that every
\* request runs all its statements on one client of its own
OwnClients == poolMax >= MaxActive

\* C3: when two saves of one name run concurrently and both answer
\* success, a read of the name made after both returns exactly the nodes
\* of the save that issued its COMMIT last (stated for a pool that is
\* never exhausted).
C3_LastCommitWins ==
    \A r1, r2, rd \in Req :
        ( /\ OwnClients
          /\ Save(r1) /\ Save(r2)
          /\ req[r1].name = req[r2].name
          /\ Overlap(r1, r2)
          /\ Answered(r1, 200) /\ Answered(r2, 200)
          /\ r1 \in req[r2].commitPrev
          /\ Read(rd) /\ req[rd].name = req[r2].name
          /\ Before(r1, rd) /\ Before(r2, rd)
          /\ Ended(req[rd]) )
        => /\ req[rd].status = 200
           /\ SameNodes(req[rd].out_nodes, req[r2].nodes)

\* C4: at most one row of snapshots carries a given name (stated for a pool
\* that is never exhausted).
C4_NamesUnique ==
    OwnClients => \A s1, s2 \in snapshots : s1.name = s2.name => s1 = s2

\* C5: a read that follows a successful save of the name, with no save in
\* between, returns the id the save returned and exactly the saved nodes:
\* as many, each (x, y, address) as often as it was saved.
C5_RoundTrip ==
    \A r, rd \in Req :
        ( /\ Save(r) /\ Answered(r, 200)
          /\ ReadsAfter(rd, r)
          /\ Ended(req[rd]) )
        => /\ req[rd].status = 200
           /\ req[rd].out_id = req[r].out_id
           /\ SameNodes(req[rd].out_nodes, req[r].nodes)

\* a snapshot saved with the same node twice was read back as two nodes,
\* while the other name held a snapshot too
C5_Witness ==
    \E r0, r, rd \in Req :
        /\ Save(r0) /\ Answered(r0, 200) /\ req[r0].name # req[r].name
        /\ req[r0].nodes # <<>>
        /\ Save(r) /\ Answered(r, 200)
        /\ req[r].nodes = <<NodeA, NodeA>>
        /\ ReadsAfter(rd, r) /\ Answered(rd, 200)
        /\ Cardinality(req[rd].out_nodes) = 2

\* the edges of the ledger between members of S, by natural key
NormalEdges(S) ==
    { [from_addr |-> t.from_addr, to_addr |-> t.to_addr, action |-> t.action] :
      t \in { u \in traces : /\ u.action \in {"call", "create", "create2"}
                             /\ u.from_addr \in S /\ u.to_addr \in S } }
DelegateEdges(S) ==
    { [storage_addr |-> t.storage_addr, to_addr |-> t.to_addr, action |-> t.action] :
      t \in { u \in traces : /\ u.action = "delegate_call"
                             /\ u.storage_addr \in S /\ u.to_addr \in S } }

\* C6: the traces of a read are exactly the edges between members of the
\* snapshot's address set S, each natural key once: normal edges by
\* (from_addr, to_addr, action), delegate edges by (storage_addr, to_addr,
\* action), a delegate_call row being selected by its storage_addr.
C6_TracesBetweenMembers ==
    \A rd \in Req :
        (Read(rd) /\ Answered(rd, 200))
        => LET S == AddressesOf(req[rd].out_nodes)
               out == req[rd].out_traces
           IN  /\ \A i, j \in 1..Len(out) : out[i] = out[j] => i = j
               /\ {out[i] : i \in 1..Len(out)} = NormalEdges(S) \cup DelegateEdges(S)

\* a read of a snapshot holding AddrA and AddrB returned the five edges
\* between them, among them the delegate edge whose caller is outside S
C6_Witness ==
    \E rd \in Req :
        /\ Read(rd) /\ Answered(rd, 200)
        /\ AddressesOf(req[rd].out_nodes) = {AddrA, AddrB}
        /\ Len(req[rd].out_traces) = 5
        /\ \E i \in 1..Len(req[rd].out_traces) :
             req[rd].out_traces[i] =
                [storage_addr |-> AddrA, to_addr |-> AddrB, action |-> "delegate_call"]

\* the record stored for an address, as a set
RecordsOf(table, a) == {s \in table : s.address = a}

\* the scorer answered request r with a body that holds a score and reports
ScoredWithBoth(r) ==
    /\ req[r].scorerCalls = 1 /\ req[r].pc # "S_SCORE"
    /\ ~req[r].reply.fails
    /\ req[r].reply.score # NoScore
    /\ req[r].reply.reports # NoReports

\* C7: the first check of a fresh address whose metadata is available makes
\* exactly one scorer call; when the scorer answers with a score and a
\* report the result is stored and answered with cached = false, and a later
\* check of the address makes no scorer call and answers cached = true with
\* the same score and report.
C7_FirstScoresSecondCached ==
    \A r \in Req :
        ( /\ Check(r) /\ Ended(req[r])
          /\ IsAddress(req[r].address)
          /\ RecordsOf(req[r].before.security_check, req[r].address) = {}
          /\ \E a \in addresses : a.address = req[r].address )
        => /\ req[r].scorerCalls = 1
           /\ ScoredWithBoth(r)
              => /\ req[r].status = 200
                 /\ req[r].cached = FALSE
                 /\ RecordsOf(security_check, req[r].address) =
                       {[address |-> req[r].address, score |-> req[r].reply.score,
                         reports |-> req[r].reply.reports]}
                 /\ \A r2 \in Req :
                       ( /\ Check(r2) /\ Ended(req[r2])
                         /\ req[r2].address = req[r].address
                         /\ Before(r, r2) )
                       => /\ req[r2].scorerCalls = 0
                          /\ req[r2].status = 200
                          /\ req[r2].cached = TRUE
                          /\ req[r2].score = req[r].reply.score
                          /\ req[r2].reports = req[r].reply.reports

\* C8: a security_check record, once stored, is never removed and never
\* replaced: every step keeps each record, and keeps it the only record of
\* its address.
C8_CacheIsPermanent ==
    [][\A row \in security_check :
          /\ row \in security_check'
          /\ \A row2 \in security_check' : row2.address = row.address => row2 = row]_vars

\* a check that was scored with another result than the stored one was
\* refused by the table, and the stored record stayed
C8_Witness ==
    \E r \in Req :
        /\ Check(r) /\ Answered(r, 500) /\ ScoredWithBoth(r)
        /\ req[r].reply.score # 0
        /\ \E row \in security_check :
              /\ row.address = req[r].address
              /\ row.score # req[r].reply.score

\* C9: on a cache miss a scorer body with a score and reports is accepted
\* whatever the integer score: it is stored and answered 200 with
\* cached = false; a body without score or without reports is answered 500
\* and no record is written (the address has none until a later request).
C9_AnyScoreAccepted ==
    \A r \in Req :
        ( /\ Check(r) /\ Ended(req[r])
          /\ req[r].scorerCalls = 1 /\ ~req[r].reply.fails )
        => IF ScoredWithBoth(r)
           THEN /\ req[r].status = 200
                /\ req[r].cached = FALSE
                /\ req[r].score = req[r].reply.score
                /\ RecordsOf(security_check, req[r].address) =
                      {[address |-> req[r].address, score |-> req[r].reply.score,
                        reports |-> req[r].reply.reports]}
           ELSE /\ req[r].status = 500
                /\ LastRequest(r) => RecordsOf(security_check, req[r].address) = {}

\* not "0x" followed by exactly HexLen hex characters
Malformed(a) ==
    \/ Len(a) # HexLen + 2
    \/ SubSeq(a, 1, 2) # <<"0", "x">>
    \/ \E i \in 3..Len(a) : a[i] \notin HexChars

\* C10: a check whose address is malformed is answered 400 in the step it
\* arrives in, having issued no query and no outbound HTTP call, and that
\* step leaves the tables, the sequences and the pool as they were.
C10_MalformedRejectedFirst ==
    /\ [](\A r \in Req :
            (Check(r) /\ Malformed(req[r].address))
            => /\ Answered(r, 400)
               /\ req[r].queries = 0
               /\ req[r].httpCalls = 0
               /\ req[r].scorerCalls = 0)
    /\ [][\A r \in Req :
            (~Started(req[r]) /\ Check(r)' /\ Malformed(req[r].address'))
            => UNCHANGED <<dbvars, idle, numClients, pending>>]_vars

\* checks of an over-long address and of one with a non-hex last character
\* were both answered 400 while a record was in the cache
C10_Witness ==
    \E r1, r2 \in Req :
        /\ Check(r1) /\ req[r1].address = AddrLong /\ Answered(r1, 400)
        /\ Check(r2) /\ req[r2].address = AddrNonHex /\ Answered(r2, 400)
        /\ security_check # {}

TraceReq(r) == req[r].kind = "trace"

\* the addresses that occur in a list of trace rows
Occurring(rows) ==
    {a \in {AddrA, AddrB, AddrC} :
        \E i \in 1..Len(rows) :
            rows[i].from_addr = a \/ rows[i].to_addr = a \/ rows[i].storage_addr = a}

\* C11: when the address lookup did not fail, the metadata of a trace answer
\* has a key for exactly the addresses occurring as from_addr, to_addr or
\* storage_addr in the returned traces; an address with no row in the
\* address store has the all-null entry, an address with a row its
\* contract_name.
C11_MetadataKeys ==
    \A r \in Req :
        (TraceReq(r) /\ Answered(r, 200) /\ req[r].dbErrors = 0)
        => /\ DOMAIN req[r].metadata = Occurring(req[r].out_traces)
           /\ \A a \in DOMAIN req[r].metadata :
                 IF \E row \in addresses : row.address = a
                 THEN \E row \in addresses :
                         /\ row.address = a
                         /\ req[r].metadata[a] = [contract_name |-> row.contract_name]
                 ELSE req[r].metadata[a] = [contract_name |-> NullText]

\* a trace answer whose rows name AddrA (stored), AddrB and AddrC (not
\* stored), AddrC only as the caller of a delegate call
C11_Witness ==
    \E r \in Req :
        /\ TraceReq(r) /\ Answered(r, 200) /\ req[r].dbErrors = 0
        /\ Len(req[r].out_traces) = 3
        /\ DOMAIN req[r].metadata = {AddrA, AddrB, AddrC}
        /\ req[r].metadata[AddrA].contract_name = "TokenA"
        /\ req[r].metadata[AddrB].contract_name = NullText

\* C12: a trace request whose address query is answered with an error
\* still answers 200, with every row the trace source returned and a
\* metadata map without any entry.
C12_LookupFailureDegrades ==
    \A r \in Req :
        (TraceReq(r) /\ Ended(req[r]) /\ req[r].dbErrors > 0)
        => /\ req[r].status = 200
           /\ req[r].out_traces = req[r].upstream.rows
           /\ DOMAIN req[r].metadata = {}

\* the address query of a trace request with three rows failed and the
\* request was answered 200
C12_Witness ==
    \E r \in Req :
        /\ TraceReq(r) /\ Answered(r, 200) /\ req[r].dbErrors = 1
        /\ Len(req[r].upstream.rows) = 3
        /\ Len(req[r].out_traces) = 3

\* the ledger rows an edge stands for
RowsOfEdge(e) ==
    {u \in traces :
        /\ u.action = e.action /\ u.to_addr = e.to_addr
        /\ IF "storage_addr" \in DOMAIN e
           THEN u.storage_addr = e.storage_addr
           ELSE u.from_addr = e.from_addr}

\* C13: every edge a snapshot read returns carries a count, the number of
\* ledger rows that share its natural key.
C13_EdgesCarryCount ==
    \A rd \in Req :
        (Read(rd) /\ Answered(rd, 200))
        => \A i \in 1..Len(req[rd].out_traces) :
              LET e == req[rd].out_traces[i]
              IN  /\ "count" \in DOMAIN e
                  /\ e.count = Cardinality(RowsOfEdge(e))

\* C14: every edge a snapshot read returns has exactly one of from_addr and
\* storage_addr: from_addr exactly when its action is call, create or
\* create2, storage_addr exactly when it is delegate_call; where the ledger
\* holds a normal and a delegate row with the same two endpoints in the
\* snapshot, both edges are returned.
C14_EdgeClassesKept ==
    \A rd \in Req :
        (Read(rd) /\ Answered(rd, 200))
        => LET out == req[rd].out_traces
               S == AddressesOf(req[rd].out_nodes)
           IN  /\ \A i \in 1..Len(out) :
                     /\ ("from_addr" \in DOMAIN out[i]) # ("storage_addr" \in DOMAIN out[i])
                     /\ ("from_addr" \in DOMAIN out[i])
                           <=> (out[i].action \in {"call", "create", "create2"})
                     /\ ("storage_addr" \in DOMAIN out[i])
                           <=> (out[i].action = "delegate_call")
               /\ \A n, d \in traces :
                     ( /\ n.action \in {"call", "create", "create2"}
                       /\ d.action = "delegate_call"
                       /\ n.from_addr = d.storage_addr /\ n.to_addr = d.to_addr
                       /\ n.from_addr \in S /\ n.to_addr \in S )
                     => \E i, j \in 1..Len(out) :
                           /\ i # j
                           /\ out[i] = [from_addr |-> n.from_addr, to_addr |-> n.to_addr,
                                        action |-> n.action]
                           /\ out[j] = [storage_addr |-> d.storage_addr,
                                        to_addr |-> d.to_addr, action |-> d.action]

\* a read returned the normal edge and the delegate edge from AddrA to AddrB
C14_Witness ==
    \E rd \in Req :
        /\ Read(rd) /\ Answered(rd, 200)
        /\ \E i, j \in 1..Len(req[rd].out_traces) :
              /\ req[rd].out_traces[i] =
                    [from_addr |-> AddrA, to_addr |-> AddrB, action |-> "call"]
              /\ req[rd].out_traces[j] =
                    [storage_addr |-> AddrA, to_addr |-> AddrB, action |-> "delegate_call"]

\* the trace lookup request r makes: by address when one is given, by
\* block when only a block is given
LooksUp(r) ==
    \/ req[r].query.address # Undefined
    \/ req[r].query.tx = "" /\ req[r].query.block # ""

\* C15 (as stated): a trace request answers 400 when no parameter is given,
\* 501 whenever tx is given, 404 when the trace source does not find the
\* address or block, and 200 otherwise, zero rows included.
C15_TraceStatusAsStated ==
    \A r \in Req :
        (TraceReq(r) /\ Ended(req[r]))
        => LET qy == req[r].query
           IN  IF qy.address = Undefined /\ qy.tx = "" /\ qy.block = ""
               THEN req[r].status = 400
               ELSE IF qy.tx # ""
               THEN req[r].status = 501
               ELSE IF req[r].upstream.fails
               THEN req[r].status = 404
               ELSE req[r].status = 200 /\ req[r].out_traces = req[r].upstream.rows

\* C15 (amended): address is looked at before tx and tx before block: 400
\* when no parameter is given, 501 when tx is given without address, 404
\* when the lookup by address or block fails, and 200 with the rows of the
\* trace source otherwise, zero rows included.
C15_TraceStatus ==
    \A r \in Req :
        (TraceReq(r) /\ Ended(req[r]))
        => LET qy == req[r].query
           IN  IF qy.address = Undefined /\ qy.tx = "" /\ qy.block = ""
               THEN req[r].status = 400 /\ req[r].httpCalls = 0
               ELSE IF ~LooksUp(r)
               THEN req[r].status = 501 /\ req[r].httpCalls = 0
               ELSE IF req[r].upstream.fails
               THEN req[r].status = 404
               ELSE req[r].status = 200 /\ req[r].out_traces = req[r].upstream.rows

\* a request with address and tx was answered 200 with an empty list, and a
\* request with tx and block was answered 501
C15_Witness ==
    \E r1, r2 \in Req :
        /\ TraceReq(r1) /\ Answered(r1, 200)
        /\ req[r1].query.address # Undefined /\ req[r1].query.tx # ""
        /\ req[r1].out_traces = <<>> /\ ~req[r1].upstream.fails
        /\ TraceReq(r2) /\ Answered(r2, 501)
        /\ req[r2].query.block # ""

\* C16: a snapshot read answers 404 exactly when no snapshot row has the
\* name; for a snapshot without nodes it answers 200 with empty nodes and
\* empty traces after the two queries for the snapshot and its nodes, none
\* against the trace ledger.
C16_NotFoundVsEmpty ==
    \A rd \in Req :
        (Read(rd) /\ Ended(req[rd]))
        => LET named == RowsNamed(req[rd].before.snapshots, req[rd].name)
           IN  /\ (req[rd].status = 404) <=> (named = {})
               /\ \A s \in named :
                     NodesOf(req[rd].before.snapshot_nodes, s.id) = {}
                     => /\ req[rd].status = 200
                        /\ req[rd].out_id = s.id
                        /\ req[rd].out_nodes = {}
                        /\ req[rd].out_traces = <<>>
                        /\ req[rd].queries = 2

\* one name was saved with an empty node list and read back empty, and the
\* read of the other name was answered 404
C16_Witness ==
    \E r, rd1, rd2 \in Req :
        /\ Save(r) /\ Answered(r, 200) /\ req[r].nodes = <<>>
        /\ ReadsAfter(rd1, r) /\ Answered(rd1, 200)
        /\ req[rd1].out_nodes = {} /\ req[rd1].queries = 2
        /\ Read(rd2) /\ Answered(rd2, 404) /\ req[rd2].name # req[r].name

\* the tables are as they were when request r arrived
Untouched(r) ==
    /\ snapshots = req[r].before.snapshots
    /\ snapshot_nodes = req[r].before.snapshot_nodes
    /\ security_check = req[r].before.security_check

\* a security check whose one call to the scorer failed was answered 500
\* with the failure's detail, and wrote nothing
ScorerFailureReported(r) ==
    /\ req[r].status = 500
    /\ req[r].detail = "Error contacting security service"
    /\ req[r].scorerCalls = 1
    /\ LastRequest(r) => Untouched(r)

\* C17: when the trace source fails during a trace request, or the scorer
\* during a security check, the request is answered with a 5xx status that
\* carries the upstream failure, after one upstream attempt and with
\* nothing persisted.
C17_UpstreamFailureIs5xx ==
    \A r \in Req :
        /\ (TraceReq(r) /\ Ended(req[r]) /\ LooksUp(r) /\ req[r].upstream.fails)
           => /\ req[r].status \in 500..599
              /\ req[r].detail \notin {"Address not found", "Block not found"}
              /\ req[r].httpCalls = 1
              /\ LastRequest(r) => Untouched(r)
        /\ (Check(r) /\ Ended(req[r]) /\ req[r].scorerCalls = 1 /\ req[r].reply.fails)
           => ScorerFailureReported(r)

\* the body of save r has a name and a node list whose nodes all have a
\* numeric x, a numeric y and a non-empty address
MeetsPreconditions(r) ==
    /\ req[r].name # "" /\ req[r].isArray
    /\ \A i \in 1..Len(req[r].nodes) :
          /\ req[r].nodes[i].x >= 0 /\ req[r].nodes[i].y >= 0
          /\ req[r].nodes[i].address \notin {Undefined, Null, <<>>}

\* C18: a save whose body violates a precondition is answered 400 and
\* persists nothing; only a save that meets them all answers 200.
C18_PreconditionsEnforced ==
    \A r \in Req :
        (Save(r) /\ Ended(req[r]))
        => /\ ~MeetsPreconditions(r)
              => /\ req[r].status = 400
                 /\ LastRequest(r) => Untouched(r)
           /\ req[r].status = 200 => MeetsPreconditions(r)

\* save s has completed its BEGIN and not yet its COMMIT or ROLLBACK
InTransaction(s) == Save(s) /\ Active(req[s]) /\ req[s].txConn # 0

\* C19: from its BEGIN to its COMMIT or ROLLBACK a save runs every
\* statement on the client its BEGIN ran on, and no other request has a
\* statement running on that client.
C19_TransactionHoldsConnection ==
    \A s \in Req :
        InTransaction(s)
        => /\ req[s].conn \in {0, req[s].txConn}
           /\ \A r \in Req \ {s} : req[r].conn # req[s].txConn

\* C20: every save that has arrived is eventually answered, with 200, 400
\* or 500, whichever of its statements are answered with an error.
C20_EverySaveAnswered ==
    \A r \in Req :
        (Save(r) /\ Started(req[r]))
            ~> (Ended(req[r]) /\ req[r].status \in {200, 400, 500})

\* C21: a ledger row whose action is none of call, create, create2 and
\* delegate_call, with from_addr and to_addr in the snapshot's address set,
\* appears among the traces a snapshot read returns.
C21_UnknownActionPassesThrough ==
    \A rd \in Req :
        (Read(rd) /\ Answered(rd, 200))
        => LET S == AddressesOf(req[rd].out_nodes)
               out == req[rd].out_traces
           IN  \A u \in traces :
                  ( /\ u.action \notin {"call", "create", "create2", "delegate_call"}
                    /\ u.from_addr \in S /\ u.to_addr \in S )
                  => \E i \in 1..Len(out) :
                        out[i].action = u.action /\ out[i].to_addr = u.to_addr

\* C22: every committed row of snapshot_nodes has the id of exactly one
\* committed row of snapshots as its snapshot_id.
C22_NoOrphanNode ==
    \A n \in snapshot_nodes :
        Cardinality({s \in snapshots : s.id = n.snapshot_id}) = 1

\* nodes are stored while one save has replaced a snapshot that had nodes
\* and another save, in flight at the same time as some other, has failed
C22_Witness ==
    /\ snapshot_nodes # {}
    /\ \E r \in Req :
          /\ Save(r) /\ Answered(r, 200)
          /\ NodesOf(req[r].before.snapshot_nodes, req[r].existing) # {}
    /\ \E r, p \in Req :
          /\ Save(r) /\ Ended(req[r]) /\ req[r].status \in {400, 500}
          /\ req[r].snapshotId # 0
          /\ Overlap(r, p)

\* checks r1 and r2 of one address were in flight together, both missed the
\* cache, and the scorer answered both with a body the handler accepts
BothMissed(r1, r2) ==
    /\ r1 # r2 /\ Check(r1) /\ Check(r2)
    /\ req[r1].address = req[r2].address
    /\ Overlap(r1, r2)
    /\ Ended(req[r1]) /\ Ended(req[r2])
    /\ \A r \in {r1, r2} :
          /\ RecordsOf(req[r].before.security_check, req[r].address) = {}
          /\ ScoredWithBoth(r) /\ ~InvalidResponse(req[r].reply)

\* C23: two checks of one uncached address that both read the cache before
\* either writes it each call the scorer once; one insert succeeds and its
\* request answers 200 with cached = false, the other request answers 500,
\* and the table holds one record for the address, the winner's.
C23_DoubleScoring ==
    \A r1, r2 \in Req :
        BothMissed(r1, r2)
        => /\ req[r1].scorerCalls = 1 /\ req[r2].scorerCalls = 1
           /\ \E w \in {r1, r2} :
                 LET l == CHOOSE x \in {r1, r2} : x # w
                 IN  /\ req[w].status = 200 /\ req[w].cached = FALSE
                     /\ req[l].status = 500
                     /\ RecordsOf(security_check, req[w].address) =
                           {[address |-> req[w].address, score |-> req[w].reply.score,
                             reports |-> req[w].reply.reports]}

\* both checks were scored, with different scores, and have ended
C23_Witness ==
    \E r1, r2 \in Req :
        /\ BothMissed(r1, r2)
        /\ req[r1].reply.score # req[r2].reply.score
        /\ req[r1].status = 500 /\ req[r2].status = 200

\* a well-formed address without a row in the address store
Unknown(a) == ~Malformed(a) /\ ~ \E row \in addresses : row.address = a

\* C24: a check of a well-formed address that has no row in the address
\* store never calls the scorer: after the cache miss its one HTTP call, the
\* metadata fetch, fails, the request is answered 500, and no record is
\* ever written for the address, so every later check repeats the outcome.
C24_UnknownAddressNeverScored ==
    \A r \in Req :
        (Check(r) /\ Started(req[r]) /\ Unknown(req[r].address))
        => /\ RecordsOf(security_check, req[r].address) = {}
           /\ req[r].scorerCalls = 0
           /\ Ended(req[r])
              => /\ req[r].status = 500
                 /\ req[r].detail = "Error contacting security service"
                 /\ req[r].queries = 2
                 /\ req[r].httpCalls = 1

\* the same unknown address was checked twice, the second time after the
\* first answer, and answered 500 both times
C24_Witness ==
    \E r1, r2 \in Req :
        /\ Check(r1) /\ Check(r2) /\ Before(r1, r2)
        /\ req[r1].address = AddrB /\ req[r2].address = AddrB
        /\ Answered(r1, 500) /\ Answered(r2, 500)
        /\ req[r2].httpCalls = 1 /\ req[r2].scorerCalls = 0

\* the step in which the statement request r has on a connection is executed
\* (a step that only hands a freed connection to r moves neither pc nor i)
Executes(r) ==
    /\ req[r].conn # 0
    /\ req'[r].pc # req[r].pc \/ req'[r].i # req[r].i

\* C25: no statement of a save for one name changes the committed snapshot rows
\* of another name, the committed nodes of those snapshots, or the
\* security_check table (no statement of any handler writes traces,
\* addresses or protocols).
C25_SaveFrame ==
    [][\A r \in Req :
          (Save(r) /\ Executes(r))
          => /\ \A n \in Names \ {req'[r].name} :
                   /\ RowsNamed(snapshots', n) = RowsNamed(snapshots, n)
                   /\ StoredNodes(n)' = StoredNodes(n)
             /\ security_check' = security_check]_vars

=============================================================================
